---- MODULE Spec2Model ----
(***************************************************************************)
(* The conversational SQL agent: the four-stage pipeline of                *)
(* backend/agent.py (identify_table -> generate_sql -> execute_sql ->      *)
(* summarize), the SQL synthesizer of backend/sql_generator.py, and the    *)
(* collaborators they call (table listing, schema fetch, query execution,  *)
(* LLM), whose outcomes are nondeterministic; the /ask_graph_agent         *)
(* endpoint of backend/main.py with its session history; and the ingestion *)
(* of backend/upload_utils.py.                                             *)
(*                                                                         *)
(* Text is modelled as a sequence of one-character strings, so that the    *)
(* Python string operations the stages rest on (lower, upper, in, replace, *)
(* split, strip, startswith) are computed as Python computes them.         *)
(***************************************************************************)
EXTENDS Integers, Sequences, FiniteSets, TLC

VARIABLES
    pc,      \* node of the graph the run is at: START, a stage, END, or RAISED
    state,   \* the AgentState dict threaded through the stages
    trace,   \* the stages this run has executed, in order
    pre,     \* the state the last executed stage received
    calls,   \* the collaborator calls the last executed stage made, in order
    io,      \* the collaborator outcomes the last executed stage consumed
    branch,  \* the branch generate_sql_step took when it last ran
    turn,    \* number of the current turn (pipeline run) of the conversation
    gen,     \* a call of generate_sql_gemini: its arguments, loop counter and outcome
    upload,  \* a call of upload_new_table: its arguments, position and outcome
    tables,  \* the database: table name -> number of rows stored, for the tables that exist
    conversation_history, \* main.py: session_id -> reference to the session's list of turns
    lists,   \* the list objects the references denote: reference -> sequence of turns
    requests, \* the /ask_graph_agent requests: position, locals and response of each
    running  \* the request whose graph_agent.invoke occupies pc, state, ...; 0 if none

\* the variables of one pipeline run
agentVars == <<pc, state, trace, pre, calls, io, branch, turn>>

\* the variables of the HTTP layer
serverVars == <<conversation_history, lists, requests, running>>

\* the variables of the synthesizer call and of the ingestion
otherVars == <<gen, upload, tables>>

vars == <<pc, state, trace, pre, calls, io, branch, turn, gen, upload, tables,
          conversation_history, lists, requests, running>>

(***************************************************************************)
(* Python str operations on sequences of characters.                       *)
(***************************************************************************)
\* the backtick character (it cannot be written inside a TLA+ string)
BT == "BACKTICK"

lowerLetters == <<"a","b","c","d","e","f","g","h","i","j","k","l","m","n","o","p","q","r","s","t","u","v","w","x","y","z">>

upperLetters == <<"A","B","C","D","E","F","G","H","I","J","K","L","M","N","O","P","Q","R","S","T","U","V","W","X","Y","Z">>

LetterPos(alphabet, c) == CHOOSE i \in 1..Len(alphabet) : alphabet[i] = c

IsLetterOf(alphabet, c) == \E i \in 1..Len(alphabet) : alphabet[i] = c

\* str.lower() on one character
LowerCh(c) == IF IsLetterOf(upperLetters, c) THEN lowerLetters[LetterPos(upperLetters, c)] ELSE c

\* str.upper() on one character
UpperCh(c) == IF IsLetterOf(lowerLetters, c) THEN upperLetters[LetterPos(lowerLetters, c)] ELSE c

\* str.lower()
Lower(s) == [i \in 1..Len(s) |-> LowerCh(s[i])] \o <<>>

\* str.upper()
Upper(s) == [i \in 1..Len(s) |-> UpperCh(s[i])] \o <<>>

\* s[i:i+len(p)] == p
HasAt(p, s, i) == /\ i >= 1
                  /\ i + Len(p) - 1 <= Len(s)
                  /\ \A k \in 1..Len(p) : s[i + k - 1] = p[k]

\* s.startswith(p)
StartsWith(s, p) == HasAt(p, s, 1)

\* p in s
Contains(p, s) == \E i \in 1..Len(s) : HasAt(p, s, i)

\* s.find(p) + 1: the position of the first occurrence of p in s, 0 when there is none
Find(p, s) == IF Contains(p, s)
              THEN CHOOSE i \in 1..Len(s) : HasAt(p, s, i) /\ \A j \in 1..(i - 1) : ~HasAt(p, s, j)
              ELSE 0

RECURSIVE Replace(_, _, _)
\* s.replace(old, new): every non-overlapping occurrence, left to right
Replace(s, old, new) ==
    LET i == Find(old, s)
    IN  IF i = 0 THEN s
        ELSE SubSeq(s, 1, i - 1) \o new \o Replace(SubSeq(s, i + Len(old), Len(s)), old, new)

\* s.split(sep, 1): one part when sep does not occur, else the text before and after its first occurrence
SplitOnce(s, sep) ==
    LET i == Find(sep, s)
    IN  IF i = 0 THEN <<s>>
        ELSE <<SubSeq(s, 1, i - 1), SubSeq(s, i + Len(sep), Len(s))>>

\* s.split(sep)[0]
SplitHead(s, sep) ==
    LET i == Find(sep, s)
    IN  IF i = 0 THEN s ELSE SubSeq(s, 1, i - 1)

IsSpace(c) == c \in {" ", "\n", "\t", "\r"}

\* s.strip()
Strip(s) ==
    LET keep == {i \in 1..Len(s) : ~IsSpace(s[i])}
    IN  IF keep = {} THEN <<>>
        ELSE SubSeq(s, CHOOSE i \in keep : \A j \in keep : i <= j,
                       CHOOSE i \in keep : \A j \in keep : i >= j)

RECURSIVE RStripChar(_, _)
\* s.rstrip(c) for a single character c
RStripChar(s, c) == IF s # <<>> /\ s[Len(s)] = c THEN RStripChar(SubSeq(s, 1, Len(s) - 1), c) ELSE s

RECURSIVE Squeeze(_)
\* every run of whitespace replaced by one space (computed on the two halves of the text)
Squeeze(s) ==
    IF s = <<>> THEN <<>>
    ELSE IF Len(s) = 1 THEN (IF IsSpace(s[1]) THEN <<" ">> ELSE s)
    ELSE LET m == Len(s) \div 2
             left == Squeeze(SubSeq(s, 1, m))
             right == Squeeze(SubSeq(s, m + 1, Len(s)))
         IN  IF left[Len(left)] = " " /\ right[1] = " " THEN left \o Tail(right) ELSE left \o right

\* " ".join(s.split())
JoinSplit(s) == Squeeze(Strip(s))

RECURSIVE Join(_, _)
\* sep.join(parts)
Join(sep, parts) ==
    IF parts = <<>> THEN <<>>
    ELSE IF Len(parts) = 1 THEN parts[1]
    ELSE parts[1] \o sep \o Join(sep, Tail(parts))


(***************************************************************************)
(* AgentState: a dict whose keys may be absent.  A field is <<>> when the  *)
(* key is absent and <<text>> when it holds text.                          *)
(***************************************************************************)
Absent == <<>>

Val(s) == <<s>>

\* bool(state.get(key)): the key is present and its text is not empty
Truthy(field) == field # Absent /\ field[1] # <<>>

\* state.get(key, default)
GetOr(field, default) == IF field = Absent THEN default ELSE field[1]

EmptyState == [query |-> Absent, table_name |-> Absent, sql |-> Absent, result |-> Absent,
               answer |-> Absent, memory |-> Absent, filters |-> Absent,
               last_action |-> Absent, last_group |-> Absent]

RECURSIVE Repeat(_, _)
Repeat(x, n) == IF n = 0 THEN <<>> ELSE <<x>> \o Repeat(x, n - 1)

InList(x, list) == \E i \in 1..Len(list) : list[i] = x

(***************************************************************************)
(* Collaborator outcomes.                                                  *)
(***************************************************************************)
\* an LLM call: kind "ok" returns text; "error" raises with message text;
\* "no_content" returns a message whose content is None
LlmOk(text) == [kind |-> "ok", text |-> text]

LlmError(msg) == [kind |-> "error", text |-> msg]

LlmNoContent == [kind |-> "no_content", text |-> <<>>]

NoneTypeStripMsg == <<"'","N","o","n","e","T","y","p","e","'"," ","o","b","j","e","c","t"," ","h","a","s"," ","n","o"," ","a","t","t","r","i","b","u","t","e"," ","'","s","t","r","i","p","'">>

\* the message of the exception that reading response...content.strip() raises, if any
LlmFailure(reply) == IF reply.kind = "error" THEN reply.text ELSE NoneTypeStripMsg

NoReply == [kind |-> "unused", text |-> <<>>]

NoListing == [ok |-> FALSE, tables |-> <<>>]

NoExec == [kind |-> "unused", rows |-> <<>>, msg |-> <<>>]

NoSynth == [raised |-> FALSE, sql |-> <<>>, calls |-> 0]

NoIO == [listing |-> NoListing, reply |-> NoReply, schema_ok |-> FALSE, synth |-> NoSynth, exec |-> NoExec]

(***************************************************************************)
(* backend/sql_generator.py                                                *)
(***************************************************************************)
max_retries == 2

_clean_model_sql(text) ==
    IF text = <<>> THEN text
    ELSE JoinSplit(Strip(Replace(Replace(text, <<BT, BT, BT, "s", "q", "l">>, <<>>), <<BT, BT, BT>>, <<>>)))

\* a faulty variant of _validate_sql: the table name is not looked for
_validate_sql_select_only(sql, table_name) ==
    IF sql = <<>> THEN FALSE
    ELSE StartsWith(Lower(Strip(sql)), <<"s","e","l","e","c","t">>)

_validate_sql(sql, table_name) ==
    IF sql = <<>> THEN FALSE
    ELSE LET lower == Lower(Strip(sql))
         IN  IF ~StartsWith(lower, <<"s","e","l","e","c","t">>) THEN FALSE
             ELSE IF ~Contains(Lower(table_name), lower) THEN FALSE
             ELSE TRUE

RECURSIVE attempts(_, _, _)
\* the retry loop of generate_sql_gemini from attempt number `attempt` (0-based) on;
\* replies[k] is the outcome of the k-th LLM call
attempts(table_name, replies, attempt) ==
    IF attempt >= max_retries + 1
    THEN [raised |-> TRUE, sql |-> <<>>, calls |-> attempt]
    ELSE LET reply == replies[attempt + 1]
             sql == _clean_model_sql(Strip(reply.text))
         IN  IF reply.kind = "ok" /\ _validate_sql(sql, table_name)
             THEN [raised |-> FALSE, sql |-> sql, calls |-> attempt + 1]
             ELSE attempts(table_name, replies, attempt + 1)

\* generate_sql_gemini: the validated SQL, or RuntimeError raised; calls counts the LLM calls made
generate_sql_gemini(table_name, replies) == attempts(table_name, replies, 0)

(***************************************************************************)
(* backend/agent.py: the four stages.  Each returns the new state, whether *)
(* an exception left the stage, and the collaborator calls it made.        *)
(***************************************************************************)
Returned(st, made) == [st |-> st, raised |-> FALSE, calls |-> made]

Propagated(st, made) == [st |-> st, raised |-> TRUE, calls |-> made]

\* a faulty variant of select_table: the model's answer is taken without the membership test
select_table_unvalidated(st, listing, reply) ==
    IF ~listing.ok THEN Returned(st, <<"get_all_table_names">>)
    ELSE IF listing.tables = <<>> THEN Returned(st, <<"get_all_table_names">>)
    ELSE LET made == <<"get_all_table_names">> \o Repeat("get_table_schema", Len(listing.tables)) \o <<"llm">>
         IN  IF reply.kind # "ok" THEN Returned(st, made)
             ELSE LET chosen_table == Strip(reply.text)
                  IN  IF Lower(chosen_table) = <<"n","o","n","e">>
                      THEN Returned(st, made)
                      ELSE Returned([st EXCEPT !.table_name = Val(chosen_table)], made)

\* identify_table_step when no table is set yet: list the tables, ask the LLM, validate its answer
select_table(st, listing, reply) ==
    IF ~listing.ok THEN Returned(st, <<"get_all_table_names">>)
    ELSE IF listing.tables = <<>> THEN Returned(st, <<"get_all_table_names">>)
    ELSE LET made == <<"get_all_table_names">> \o Repeat("get_table_schema", Len(listing.tables)) \o <<"llm">>
         IN  IF reply.kind # "ok" THEN Returned(st, made)
             ELSE LET chosen_table == Strip(reply.text)
                  IN  IF Lower(chosen_table) = <<"n","o","n","e">> \/ ~InList(chosen_table, listing.tables)
                      THEN Returned(st, made)
                      ELSE Returned([st EXCEPT !.table_name = Val(chosen_table)], made)

\* a faulty variant of identify_table_step: a table already set is not reused
identify_table_step_no_reuse(st, listing, reply) == select_table(st, listing, reply)

identify_table_step(st, listing, reply) ==
    IF Truthy(st.table_name) THEN Returned(st, <<>>)
    ELSE select_table(st, listing, reply)

breakdown_sql(group_col, table, filters) ==
    <<"\n","S","E","L","E","C","T"," ">> \o group_col \o <<",","\n"," "," "," "," "," "," "," ","C","O","U","N","T","(","*",")"," ","A","S"," ","r","e","v","i","e","w","_","c","o","u","n","t",",","\n"," "," "," "," "," "," "," ","A","V","G","(","r","e","v","i","e","w","r","a","t","i","n","g",")"," ","A","S"," ","a","v","g","_","r","a","t","i","n","g",",","\n"," "," "," "," "," "," "," ","M","I","N","(","r","e","v","i","e","w","r","a","t","i","n","g",")"," ","A","S"," ","m","i","n","_","r","a","t","i","n","g",",","\n"," "," "," "," "," "," "," ","M","A","X","(","r","e","v","i","e","w","r","a","t","i","n","g",")"," ","A","S"," ","m","a","x","_","r","a","t","i","n","g","\n","F","R","O","M"," ">>
    \o table \o <<"\n","W","H","E","R","E"," ">> \o filters \o <<"\n","G","R","O","U","P"," ","B","Y"," ">> \o group_col \o <<"\n","O","R","D","E","R"," ","B","Y"," ","r","e","v","i","e","w","_","c","o","u","n","t"," ","D","E","S","C",";","\n">>

\* a faulty variant of group_col_of: the column named in the query is ignored
group_col_of_last_only(query_text, st) == GetOr(st.last_group, <<"u","s","e","r","g","e","n","d","e","r">>)

\* the group column the breakdown branch picks
group_col_of(query_text, st) ==
    IF Contains(<<"u","s","e","r","a","g","e">>, query_text) THEN <<"u","s","e","r","a","g","e">>
    ELSE IF Contains(<<"u","s","e","r","g","e","n","d","e","r">>, query_text) THEN <<"u","s","e","r","g","e","n","d","e","r">>
    ELSE GetOr(st.last_group, <<"u","s","e","r","g","e","n","d","e","r">>)

\* a faulty variant of branch_of: the follow-up heuristics are never taken
branch_of_default_only(query_text, st) == "default"

\* a faulty variant of branch_of: the breakdown test is made before the gender-swap test
branch_of_breakdown_first(query_text, st) ==
    IF Contains(<<"b","r","e","a","k"," ","d","o","w","n">>, query_text) /\ Truthy(st.filters) THEN "breakdown"
    ELSE IF Contains(<<"m","a","l","e">>, query_text) /\ Truthy(st.filters) THEN "gender_swap"
    ELSE "default"

\* which of the three branches generate_sql_step takes
branch_of(query_text, st) ==
    IF Contains(<<"m","a","l","e">>, query_text) /\ Truthy(st.filters) THEN "gender_swap"
    ELSE IF Contains(<<"b","r","e","a","k"," ","d","o","w","n">>, query_text) /\ Truthy(st.filters) THEN "breakdown"
    ELSE "default"

\* a faulty variant of swap_gender: only the quoted lower-case value is replaced
swap_gender_quoted_only(filters) == Replace(filters, <<"'","f","e","m","a","l","e","'">>, <<"'","m","a","l","e","'">>)

\* the gender-swap substitution on the filter body
swap_gender(filters) == Replace(Replace(filters, <<"F","e","m","a","l","e">>, <<"M","a","l","e">>), <<"'","f","e","m","a","l","e","'">>, <<"'","m","a","l","e","'">>)

\* a faulty variant of append_filters: the WHERE test is made on the text as spelled
append_filters_case_sensitive(sql, st) ==
    IF Truthy(st.filters) /\ ~Contains(<<"W","H","E","R","E">>, sql)
    THEN RStripChar(Strip(sql), ";") \o <<"\n","W","H","E","R","E"," ">> \o st.filters[1] \o <<";">>
    ELSE sql

\* the default branch: prior filters appended when the synthesizer's SQL has no WHERE
append_filters(sql, st) ==
    IF Truthy(st.filters) /\ ~Contains(<<"W","H","E","R","E">>, Upper(sql))
    THEN RStripChar(Strip(sql), ";") \o <<"\n","W","H","E","R","E"," ">> \o st.filters[1] \o <<";">>
    ELSE sql

\* a faulty variant of generate_sql_step: a failed synthesis stores an empty sql
generate_sql_step_empty_sql(st, schema_ok, g) ==
    IF ~Truthy(st.table_name)
    THEN [st |-> st, raised |-> FALSE, calls |-> <<>>, branch |-> "no_table", synth |-> NoSynth]
    ELSE IF ~schema_ok
    THEN [st |-> st, raised |-> FALSE, calls |-> <<"get_table_schema">>, branch |-> "no_schema", synth |-> NoSynth]
    ELSE LET table == st.table_name[1]
             query_text == Lower(GetOr(st.query, <<>>))
             taken == branch_of(query_text, st)
         IN  IF taken = "gender_swap"
             THEN LET new_filters == swap_gender(st.filters[1])
                      sql == <<"S","E","L","E","C","T"," ","*"," ","F","R","O","M"," ">> \o table \o <<" ","W","H","E","R","E"," ">> \o new_filters \o <<";">>
                  IN  [st |-> [st EXCEPT !.filters = Val(new_filters),
                                         !.last_action = Val(<<"s","e","l","e","c","t","_","r","e","c","o","r","d","s">>),
                                         !.sql = Val(sql)],
                       raised |-> FALSE, calls |-> <<"get_table_schema">>, branch |-> taken, synth |-> NoSynth]
             ELSE IF taken = "breakdown"
             THEN LET group_col == group_col_of(query_text, st)
                      sql == breakdown_sql(group_col, table, st.filters[1])
                  IN  [st |-> [st EXCEPT !.last_action = Val(<<"b","r","e","a","k","d","o","w","n">>),
                                         !.last_group = Val(group_col),
                                         !.sql = Val(sql)],
                       raised |-> FALSE, calls |-> <<"get_table_schema">>, branch |-> taken, synth |-> NoSynth]
             ELSE LET made == <<"get_table_schema">> \o Repeat("llm", g.calls)
                  IN  IF g.raised
                      THEN [st |-> [st EXCEPT !.sql = Val(<<>>)],
                            raised |-> FALSE, calls |-> made, branch |-> taken, synth |-> g]
                      ELSE [st |-> [st EXCEPT !.sql = Val(append_filters(g.sql, st))],
                            raised |-> FALSE, calls |-> made, branch |-> taken, synth |-> g]

\* g is what the call generate_sql_gemini(enriched_query, schema, table) does
generate_sql_step(st, schema_ok, g) ==
    IF ~Truthy(st.table_name)
    THEN [st |-> st, raised |-> FALSE, calls |-> <<>>, branch |-> "no_table", synth |-> NoSynth]
    ELSE IF ~schema_ok
    THEN [st |-> st, raised |-> FALSE, calls |-> <<"get_table_schema">>, branch |-> "no_schema", synth |-> NoSynth]
    ELSE LET table == st.table_name[1]
             query_text == Lower(GetOr(st.query, <<>>))
             taken == branch_of(query_text, st)
         IN  IF taken = "gender_swap"
             THEN LET new_filters == swap_gender(st.filters[1])
                      sql == <<"S","E","L","E","C","T"," ","*"," ","F","R","O","M"," ">> \o table \o <<" ","W","H","E","R","E"," ">> \o new_filters \o <<";">>
                  IN  [st |-> [st EXCEPT !.filters = Val(new_filters),
                                         !.last_action = Val(<<"s","e","l","e","c","t","_","r","e","c","o","r","d","s">>),
                                         !.sql = Val(sql)],
                       raised |-> FALSE, calls |-> <<"get_table_schema">>, branch |-> taken, synth |-> NoSynth]
             ELSE IF taken = "breakdown"
             THEN LET group_col == group_col_of(query_text, st)
                      sql == breakdown_sql(group_col, table, st.filters[1])
                  IN  [st |-> [st EXCEPT !.last_action = Val(<<"b","r","e","a","k","d","o","w","n">>),
                                         !.last_group = Val(group_col),
                                         !.sql = Val(sql)],
                       raised |-> FALSE, calls |-> <<"get_table_schema">>, branch |-> taken, synth |-> NoSynth]
             ELSE LET made == <<"get_table_schema">> \o Repeat("llm", g.calls)
                  IN  IF g.raised
                      THEN [st |-> st, raised |-> FALSE, calls |-> made, branch |-> taken, synth |-> g]
                      ELSE [st |-> [st EXCEPT !.sql = Val(append_filters(g.sql, st))],
                            raised |-> FALSE, calls |-> made, branch |-> taken, synth |-> g]

\* str(rows) of a list of row dicts, each given by its repr
PyStrList(rows) == <<"[">> \o Join(<<","," ">>, rows) \o <<"]">>

IndexErrorMsg == <<"l","i","s","t"," ","i","n","d","e","x"," ","o","u","t"," ","o","f"," ","r","a","n","g","e">>

\* a faulty variant of capture_filters: the ORDER BY suffix is not cut off
capture_filters_keep_order(sql) ==
    LET parts == SplitOnce(sql, <<"W","H","E","R","E">>)
    IN  IF Len(parts) < 2 THEN <<>>
        ELSE <<Strip(SplitHead(parts[2], <<"G","R","O","U","P"," ","B","Y">>))>>

\* the filters captured from an executed SQL that contains WHERE in some letter case:
\* <<body>>, or <<>> when sql.split("WHERE", 1)[1] raises IndexError
capture_filters(sql) ==
    LET parts == SplitOnce(sql, <<"W","H","E","R","E">>)
    IN  IF Len(parts) < 2 THEN <<>>
        ELSE <<Strip(SplitHead(SplitHead(parts[2], <<"G","R","O","U","P"," ","B","Y">>), <<"O","R","D","E","R"," ","B","Y">>))>>

\* a faulty variant of execute_sql_step: database errors are not told apart from other errors
execute_sql_step_one_handler(st, out) ==
    IF ~Truthy(st.sql) THEN Returned(st, <<>>)
    ELSE LET sql == st.sql[1]
             made == <<"run_query">>
         IN  IF out.kind \in {"db_error", "error"}
             THEN Returned([st EXCEPT !.result = Val(<<"E","x","e","c","u","t","i","o","n"," ","e","r","r","o","r",":"," ">> \o out.msg)], made)
             ELSE LET st1 == [st EXCEPT !.result = Val(PyStrList(out.rows))]
                  IN  IF Contains(<<"W","H","E","R","E">>, Upper(sql))
                      THEN LET captured == capture_filters(sql)
                           IN  IF captured = <<>>
                               THEN Returned([st1 EXCEPT !.result = Val(<<"E","x","e","c","u","t","i","o","n"," ","e","r","r","o","r",":"," ">> \o IndexErrorMsg)], made)
                               ELSE Returned([st1 EXCEPT !.filters = Val(captured[1])], made)
                      ELSE Returned(st1, made)

execute_sql_step(st, out) ==
    IF ~Truthy(st.sql) THEN Returned(st, <<>>)
    ELSE LET sql == st.sql[1]
             made == <<"run_query">>
         IN  IF out.kind = "db_error"
             THEN Returned([st EXCEPT !.result = Val(<<"D","a","t","a","b","a","s","e"," ","e","r","r","o","r",":"," ">> \o out.msg)], made)
             ELSE IF out.kind = "error"
             THEN Returned([st EXCEPT !.result = Val(<<"E","x","e","c","u","t","i","o","n"," ","e","r","r","o","r",":"," ">> \o out.msg)], made)
             ELSE LET st1 == [st EXCEPT !.result = Val(PyStrList(out.rows))]
                  IN  IF Contains(<<"W","H","E","R","E">>, Upper(sql))
                      THEN LET captured == capture_filters(sql)
                           IN  IF captured = <<>>
                               THEN Returned([st1 EXCEPT !.result = Val(<<"E","x","e","c","u","t","i","o","n"," ","e","r","r","o","r",":"," ">> \o IndexErrorMsg)], made)
                               ELSE Returned([st1 EXCEPT !.filters = Val(captured[1])], made)
                      ELSE Returned(st1, made)

\* a faulty variant of summarize_step: a failing LLM call is not caught
summarize_step_uncaught(st, reply) ==
    IF reply.kind = "ok"
    THEN LET answer == Strip(reply.text)
             previous_memory == GetOr(st.memory, <<>>)
         IN  Returned([st EXCEPT !.answer = Val(answer),
                                 !.memory = Val(previous_memory \o <<"\n","U","s","e","r",":"," ">> \o GetOr(st.query, <<"N","o","n","e">>)
                                                \o <<"\n","A","I",":"," ">> \o answer \o <<"\n">>)],
                      <<"llm">>)
    ELSE Propagated(st, <<"llm">>)

summarize_step(st, reply) ==
    IF reply.kind = "ok"
    THEN LET answer == Strip(reply.text)
             previous_memory == GetOr(st.memory, <<>>)
         IN  Returned([st EXCEPT !.answer = Val(answer),
                                 !.memory = Val(previous_memory \o <<"\n","U","s","e","r",":"," ">> \o GetOr(st.query, <<"N","o","n","e">>)
                                                \o <<"\n","A","I",":"," ">> \o answer \o <<"\n">>)],
                      <<"llm">>)
    ELSE Returned([st EXCEPT !.answer = Val(<<"S","u","m","m","a","r","i","z","a","t","i","o","n"," ","e","r","r","o","r",":"," ">> \o LlmFailure(reply))], <<"llm">>)

(***************************************************************************)
(* The compiled graph: START -> identify_table -> generate_sql ->          *)
(* execute_sql -> summarize -> END.                                        *)
(***************************************************************************)
\* a faulty variant of Edges: generate_sql is wired to summarize, execute_sql is left out
Edges_skip_execute == {<<"START", "identify_table">>, <<"identify_table", "generate_sql">>,
                       <<"generate_sql", "summarize">>, <<"summarize", "END">>}

Edges == {<<"START", "identify_table">>, <<"identify_table", "generate_sql">>,
          <<"generate_sql", "execute_sql">>, <<"execute_sql", "summarize">>,
          <<"summarize", "END">>}

Successors(node) == {e[2] : e \in {d \in Edges : d[1] = node}}

\* where the run goes after `node` has run; an exception leaving a node aborts the run
After(node, raised) == IF raised THEN {"RAISED"} ELSE Successors(node)

(***************************************************************************)
(* The inputs and collaborator outcomes the model draws from.              *)
(***************************************************************************)
Q_female == <<"s","h","o","w"," ","f","e","m","a","l","e"," ","r","e","v","i","e","w","e","r","s">>

Q_male == <<"s","h","o","w"," ","m","a","l","e"," ","i","n","s","t","e","a","d">>

Q_break_it_down == <<"b","r","e","a","k"," ","i","t"," ","d","o","w","n"," ","b","y"," ","u","s","e","r","a","g","e">>

Q_break_down == <<"b","r","e","a","k"," ","d","o","w","n"," ","b","y"," ","u","s","e","r","a","g","e">>

Q_count == <<"c","o","u","n","t"," ","t","h","e"," ","r","e","v","i","e","w","s">>

Q_male_break_down == <<"b","r","e","a","k"," ","d","o","w","n"," ","m","a","l","e"," ","r","e","v","i","e","w","e","r","s"," ","b","y"," ","u","s","e","r","a","g","e">>

Q_break_down_gender == <<"b","r","e","a","k"," ","d","o","w","n"," ","b","y"," ","u","s","e","r","g","e","n","d","e","r">>

Q_break_down_again == <<"B","r","e","a","k"," ","d","o","w","n"," ","a","g","a","i","n">>

Q_break_down_both == <<"b","r","e","a","k"," ","d","o","w","n"," ","b","y"," ","u","s","e","r","g","e","n","d","e","r"," ","a","n","d"," ","u","s","e","r","a","g","e">>

Queries == {Q_female, Q_male, Q_break_it_down, Q_break_down, Q_count, Q_male_break_down,
            Q_break_down_gender, Q_break_down_again, Q_break_down_both}

T_reviews == <<"r","e","v","i","e","w","s">>

T_t == <<"t">>

Listings == {[ok |-> FALSE, tables |-> <<>>],
             [ok |-> TRUE, tables |-> <<>>],
             [ok |-> TRUE, tables |-> <<T_reviews>>],
             [ok |-> TRUE, tables |-> <<T_reviews, T_t>>]}

IdentReplies == {LlmOk(T_reviews), LlmOk(<<" ","r","e","v","i","e","w","s","\n">>), LlmOk(T_t), LlmOk(<<"n","o","n","e">>), LlmOk(<<"N","o","n","e">>),
                 LlmOk(<<"R","e","v","i","e","w","s">>), LlmOk(<<"u","s","e","r","s">>), LlmError(<<"t","i","m","e","o","u","t">>), LlmNoContent}

F_Female == <<"u","s","e","r","g","e","n","d","e","r"," ","="," ","'","F","e","m","a","l","e","'">>

F_female == <<"u","s","e","r","g","e","n","d","e","r"," ","="," ","'","f","e","m","a","l","e","'">>

F_a == <<"a"," ","="," ","1">>

Sql_Female == <<"S","E","L","E","C","T"," ","*"," ","F","R","O","M"," ","r","e","v","i","e","w","s"," ","W","H","E","R","E"," ","u","s","e","r","g","e","n","d","e","r"," ","="," ","'","F","e","m","a","l","e","'">>

Sql_fenced == <<BT, BT, BT>> \o <<"s","q","l","\n","S","E","L","E","C","T"," ","*"," "," ","F","R","O","M"," ","r","e","v","i","e","w","s","\n","W","H","E","R","E"," ","u","s","e","r","g","e","n","d","e","r"," ","="," ","'","f","e","m","a","l","e","'",";","\n">> \o <<BT, BT, BT>>

Sql_lower == <<"s","e","l","e","c","t"," ","*"," ","f","r","o","m"," ","r","e","v","i","e","w","s"," ","w","h","e","r","e"," ","u","s","e","r","g","e","n","d","e","r"," ","="," ","'","F","e","m","a","l","e","'">>

Sql_group_order == <<"S","E","L","E","C","T"," ","*"," ","F","R","O","M"," ","t"," ","W","H","E","R","E"," ","a"," ","="," ","1"," ","G","R","O","U","P"," ","B","Y"," ","b"," ","O","R","D","E","R"," ","B","Y"," ","c">>

Sql_order_lower == <<"S","E","L","E","C","T"," ","*"," ","F","R","O","M"," ","r","e","v","i","e","w","s"," ","W","H","E","R","E"," ","a"," ","="," ","1"," ","o","r","d","e","r"," ","b","y"," ","b">>

Sql_order == <<"S","E","L","E","C","T"," ","*"," ","F","R","O","M"," ","r","e","v","i","e","w","s"," ","W","H","E","R","E"," ","a"," ","="," ","1"," ","O","R","D","E","R"," ","B","Y"," ","b">>

Sql_nested == <<"S","E","L","E","C","T"," ","*"," ","F","R","O","M"," ","r","e","v","i","e","w","s"," ","W","H","E","R","E"," ","a"," ","I","N"," ","(","S","E","L","E","C","T"," ","a"," ","F","R","O","M"," ","t"," ","W","H","E","R","E"," ","b"," ","="," ","1",")">>

Sql_no_where == <<"S","E","L","E","C","T"," ","C","O","U","N","T","(","*",")"," ","F","R","O","M"," ","r","e","v","i","e","w","s",";">>

Sql_delete == <<"D","E","L","E","T","E"," ","F","R","O","M"," ","r","e","v","i","e","w","s">>

Sql_plain == <<"S","E","L","E","C","T"," ","u","s","e","r","a","g","e"," ","F","R","O","M"," ","r","e","v","i","e","w","s">>

SynthReplies == {LlmOk(Sql_Female), LlmOk(Sql_fenced), LlmOk(Sql_lower), LlmOk(Sql_group_order),
                 LlmOk(Sql_order_lower), LlmOk(Sql_order), LlmOk(Sql_nested), LlmOk(Sql_no_where), LlmOk(Sql_delete),
                 LlmOk(Sql_plain),
                 LlmError(<<"t","i","m","e","o","u","t">>), LlmNoContent}

SynthReplySeqs == [1..(max_retries + 1) -> SynthReplies]

TableNames == {T_reviews, T_t}

\* what generate_sql_gemini does for each table name, over every sequence of LLM replies
SynthTable == {[table |-> t, out |-> generate_sql_gemini(t, replies)] : t \in TableNames, replies \in SynthReplySeqs}

\* the outcomes of the synthesizer call generate_sql_step makes for the state's table
SynthOutcomes(table_name) ==
    IF Truthy(table_name) THEN {x.out : x \in {y \in SynthTable : y.table = table_name[1]}} ELSE {NoSynth}

Row_1 == <<"{","'","u","s","e","r","g","e","n","d","e","r","'",":"," ","'","F","e","m","a","l","e","'","}">>

Row_2 == <<"{","'","u","s","e","r","g","e","n","d","e","r","'",":"," ","'","M","a","l","e","'","}">>

ExecOutcomes == {[kind |-> "rows", rows |-> <<>>, msg |-> <<>>],
                 [kind |-> "rows", rows |-> <<Row_1, Row_2>>, msg |-> <<>>],
                 [kind |-> "db_error", rows |-> <<>>, msg |-> <<"s","y","n","t","a","x"," ","e","r","r","o","r">>],
                 [kind |-> "error", rows |-> <<>>, msg |-> <<"b","o","o","m">>]}

SummaryReplies == {LlmOk(<<" ","T","w","o"," ","r","e","v","i","e","w","e","r","s",".","\n">>), LlmError(<<"t","i","m","e","o","u","t">>), LlmNoContent}

\* the states a caller may hand to graph_agent.invoke: the query and the memory, and
\* optionally the fields a conversation carries from turn to turn
InvokeStates ==
    {[EmptyState EXCEPT !.query = Val(q), !.memory = Val(<<>>), !.table_name = t,
                        !.filters = f, !.last_group = g] :
        q \in Queries, t \in {Absent, Val(T_reviews)},
        f \in {Absent, Val(<<>>), Val(F_Female), Val(F_female), Val(F_a)},
        g \in {Absent, Val(<<"u","s","e","r","a","g","e">>)}}

SessionQueries == {Q_female, Q_male, Q_break_down}

\* turns of one conversation
MaxTurns == 2

(***************************************************************************)
(* backend/upload_utils.py: the ingestion.  A file's content is the        *)
(* sequence of its rows; the database is the map `tables`.                 *)
(***************************************************************************)
\* UPLOAD_MAX_ROWS as configured
MAX_ROWS == 3

\* UPLOAD_CHUNK_SIZE as configured
CHUNK_SIZE == 2

ALLOWED_EXT == {<<".","c","s","v">>, <<".","x","l","s","x">>, <<".","x","l","s">>}

digits == <<"0","1","2","3","4","5","6","7","8","9">>

\* c.isalnum() on an ASCII character
IsAlnum(c) == IsLetterOf(lowerLetters, c) \/ IsLetterOf(upperLetters, c) \/ IsLetterOf(digits, c)

IsFilenameChar(c) == IsAlnum(c) \/ c \in {"_", ".", "-"}

IsDotOrUnderscore(c) == c \in {".", "_"}

\* s.strip("._")
StripDots(s) ==
    LET keep == {i \in 1..Len(s) : ~IsDotOrUnderscore(s[i])}
    IN  IF keep = {} THEN <<>>
        ELSE SubSeq(s, CHOOSE i \in keep : \A j \in keep : i <= j,
                       CHOOSE i \in keep : \A j \in keep : i >= j)

\* werkzeug's secure_filename on an ASCII name without path separators
secure_filename(filename) ==
    StripDots(SelectSeq(Replace(JoinSplit(filename), <<" ">>, <<"_">>), IsFilenameChar))

\* Path(name).suffix: from the last dot on, unless the dot is the first or the last character
Suffix(name) ==
    LET dots == {i \in 1..Len(name) : name[i] = "."}
        i == CHOOSE d \in dots : \A e \in dots : e <= d
    IN  IF dots = {} THEN <<>>
        ELSE IF i >= 2 /\ i <= Len(name) - 1 THEN SubSeq(name, i, Len(name)) ELSE <<>>

\* _ensure_table_name_safe: the sanitized name
table_name_safe_of(name) == Lower(Strip(name))

RECURSIVE drop_duplicates(_)
\* DataFrame.drop_duplicates: the first occurrence of every row is kept
drop_duplicates(rows) ==
    IF rows = <<>> THEN <<>>
    ELSE LET front == drop_duplicates(SubSeq(rows, 1, Len(rows) - 1))
             r == rows[Len(rows)]
         IN  IF InList(r, front) THEN front ELSE Append(front, r)

\* _normalize_dataframe on the rows
_normalize_dataframe(rows) == drop_duplicates(rows)

\* rows is len(df) as read, -1 when the file was not read
Failed(type, check, checks, rows) == [error |-> type, check |-> check, checks |-> checks, df |-> <<>>, rows |-> rows]

\* a faulty variant of validation: the row cap is not enforced
validation_without_row_cap(file_exists, filename, table_name, read) ==
    IF ~file_exists THEN Failed("FileNotFoundError", "exists", <<"exists">>, -1)
    ELSE IF secure_filename(filename) = <<>>
    THEN Failed("ValueError", "filename", <<"exists", "filename">>, -1)
    ELSE IF table_name_safe_of(table_name) = <<>>
            \/ \E i \in 1..Len(table_name_safe_of(table_name)) :
                  ~(IsAlnum(table_name_safe_of(table_name)[i]) \/ table_name_safe_of(table_name)[i] = "_")
    THEN Failed("ValueError", "table_name", <<"exists", "filename", "table_name">>, -1)
    ELSE IF Lower(Suffix(filename)) \notin ALLOWED_EXT
    THEN Failed("ValueError", "file_type", <<"exists", "filename", "table_name", "file_type">>, -1)
    ELSE IF ~read.ok
    THEN Failed("ReadError", "read", <<"exists", "filename", "table_name", "file_type">>, -1)
    ELSE IF _normalize_dataframe(read.rows) = <<>>
    THEN Failed("ValueError", "non_empty", <<"exists", "filename", "table_name", "file_type", "non_empty">>, Len(read.rows))
    ELSE [error |-> "none", check |-> "none",
          checks |-> <<"exists", "filename", "table_name", "file_type", "non_empty">>,
          df |-> _normalize_dataframe(read.rows), rows |-> Len(read.rows)]

\* upload_new_table up to the upload itself: the checks made, in order, and the first one
\* that fails; read is what reading the file gives
validation(file_exists, filename, table_name, read) ==
    IF ~file_exists THEN Failed("FileNotFoundError", "exists", <<"exists">>, -1)
    ELSE IF secure_filename(filename) = <<>>
    THEN Failed("ValueError", "filename", <<"exists", "filename">>, -1)
    ELSE IF table_name_safe_of(table_name) = <<>>
            \/ \E i \in 1..Len(table_name_safe_of(table_name)) :
                  ~(IsAlnum(table_name_safe_of(table_name)[i]) \/ table_name_safe_of(table_name)[i] = "_")
    THEN Failed("ValueError", "table_name", <<"exists", "filename", "table_name">>, -1)
    ELSE IF Lower(Suffix(filename)) \notin ALLOWED_EXT
    THEN Failed("ValueError", "file_type", <<"exists", "filename", "table_name", "file_type">>, -1)
    ELSE IF ~read.ok
    THEN Failed("ReadError", "read", <<"exists", "filename", "table_name", "file_type">>, -1)
    ELSE IF Len(read.rows) > MAX_ROWS
    THEN Failed("ValueError", "row_cap", <<"exists", "filename", "table_name", "file_type", "row_cap">>, Len(read.rows))
    ELSE IF _normalize_dataframe(read.rows) = <<>>
    THEN Failed("ValueError", "non_empty", <<"exists", "filename", "table_name", "file_type", "row_cap", "non_empty">>, Len(read.rows))
    ELSE [error |-> "none", check |-> "none",
          checks |-> <<"exists", "filename", "table_name", "file_type", "row_cap", "non_empty">>,
          df |-> _normalize_dataframe(read.rows), rows |-> Len(read.rows)]

File_csv == <<"d","a","t","a",".","c","s","v">>

File_xlsx == <<"m","y"," ","d","a","t","a",".","X","L","S","X">>

File_txt == <<"n","o","t","e","s",".","t","x","t">>

File_unsafe == <<"_","_">>

FileNames == {File_csv, File_xlsx, File_txt, File_unsafe}

UploadTableNames == {T_reviews, <<" ","R","e","v","i","e","w","s"," ">>, <<"m","y"," ","t","a","b","l","e">>, <<" "," "," ">>}

RowValues == {"r1", "r2", "r3"}

\* the row sequences of at most n rows
RowSeqs(n) == UNION {[1..k -> RowValues] : k \in 0..n}

\* what reading the file gives: a parse failure, or its rows (up to one more than the cap)
FileContents == {[ok |-> FALSE, rows |-> <<>>]} \cup {[ok |-> TRUE, rows |-> r] : r \in RowSeqs(MAX_ROWS + 1)}

NoTables == <<>>

\* the rows the table reviews holds before the upload
PriorRows == 5

NoOutcome == [kind |-> "none", type |-> "none", check |-> "none", rows |-> 0]

Raised(type, check) == [kind |-> "raised", type |-> type, check |-> check, rows |-> 0]

\* a call of upload_new_table; log lists the checks made and the database statements
\* issued, in order, and before is the database at the time of the call
NoUpload == [pc |-> "idle", file_exists |-> FALSE, filename |-> <<>>, table_name |-> <<>>,
             rows_read |-> -1, df |-> <<>>, start |-> 0, first_chunk |-> TRUE, log |-> <<>>,
             outcome |-> NoOutcome, before |-> NoTables]

\* the table map without the table `name`
Without(tbls, name) == [t \in DOMAIN tbls \ {name} |-> tbls[t]]

\* the table map with `name` holding n rows
With(tbls, name, n) == [t \in DOMAIN tbls \cup {name} |-> IF t = name THEN n ELSE tbls[t]]

\* lines 122-142: every check, and the read and the cleaning of the file
Validate ==
    /\ upload.pc = "called"
    /\ \E read \in FileContents :
        LET v == validation(upload.file_exists, upload.filename, upload.table_name, read)
        IN  upload' = IF v.error # "none"
                      THEN [upload EXCEPT !.pc = "done", !.log = v.checks, !.rows_read = v.rows,
                                          !.outcome = Raised(v.error, v.check)]
                      ELSE [upload EXCEPT !.pc = "engine", !.log = v.checks, !.rows_read = v.rows,
                                          !.df = v.df]
    /\ UNCHANGED <<tables, gen, agentVars, serverVars>>

\* line 145: get_engine(), outside the try
GetEngine ==
    /\ upload.pc = "engine"
    /\ \E ok \in BOOLEAN :
        upload' = IF ok THEN [upload EXCEPT !.pc = "drop"]
                  ELSE [upload EXCEPT !.pc = "done", !.outcome = Raised("EngineError", "none")]
    /\ UNCHANGED <<tables, gen, agentVars, serverVars>>

\* _to_sql_with_chunks, lines 81-100: the prior table is dropped (a failing drop is
\* ignored; a failing engine.begin() is not), then an empty frame is refused
DropPrior ==
    /\ upload.pc = "drop"
    /\ LET name == table_name_safe_of(upload.table_name)
       IN  \E how \in {"dropped", "ignored", "begin_failed"} :
            IF how = "begin_failed"
            THEN /\ upload' = [upload EXCEPT !.pc = "done", !.outcome = Raised("RuntimeError", "none")]
                 /\ UNCHANGED tables
            ELSE /\ tables' = IF how = "dropped" THEN Without(tables, name) ELSE tables
                 /\ upload' = IF Len(upload.df) = 0
                              THEN [upload EXCEPT !.pc = "done", !.log = Append(@, "drop"),
                                                  !.outcome = Raised("RuntimeError", "no_rows")]
                              ELSE [upload EXCEPT !.pc = "write", !.log = Append(@, "drop"),
                                                  !.start = 0, !.first_chunk = TRUE]
    /\ UNCHANGED <<gen, agentVars, serverVars>>

\* one pass of the loop of lines 102-114, and the return of line 148 after the last one
WriteChunk ==
    /\ upload.pc = "write"
    /\ upload.start < Len(upload.df)
    /\ LET name == table_name_safe_of(upload.table_name)
           total == Len(upload.df)
           end == IF upload.start + CHUNK_SIZE < total THEN upload.start + CHUNK_SIZE ELSE total
           n == end - upload.start
       IN  \E ok \in BOOLEAN, lost \in BOOLEAN :
            IF ok
            THEN /\ tables' = IF upload.first_chunk THEN With(tables, name, n)
                              ELSE With(tables, name, (IF name \in DOMAIN tables THEN tables[name] ELSE 0) + n)
                 /\ upload' = IF end < total
                              THEN [upload EXCEPT !.start = end, !.first_chunk = FALSE, !.log = Append(@, "chunk")]
                              ELSE [upload EXCEPT !.start = end, !.first_chunk = FALSE, !.log = Append(@, "chunk"),
                                                  !.pc = "done",
                                                  !.outcome = [kind |-> "returned", type |-> "none",
                                                               check |-> "none", rows |-> total]]
            ELSE /\ tables' = IF upload.first_chunk /\ lost THEN Without(tables, name) ELSE tables
                 /\ upload' = [upload EXCEPT !.pc = "done", !.log = Append(@, "chunk"),
                                             !.outcome = Raised("RuntimeError", "none")]
    /\ UNCHANGED <<gen, agentVars, serverVars>>

UploadNext == Validate \/ GetEngine \/ DropPrior \/ WriteChunk

(***************************************************************************)
(* One call of generate_sql_gemini, attempt by attempt.                    *)
(***************************************************************************)
\* the call: its table_name, the loop variable, the LLM replies received so far, the
\* number of LLM calls made, and the SQL returned
NoGen == [pc |-> "idle", table_name |-> <<>>, attempt |-> 0, replies |-> <<>>, calls |-> 0, sql |-> <<>>]

\* one pass of the loop of lines 89-111: the LLM is called; a reply that cleans to a
\* valid SQL is returned, any failure is caught and the loop goes on after the backoff
Attempt ==
    /\ gen.pc = "loop"
    /\ gen.attempt < max_retries + 1
    /\ \E reply \in SynthReplies :
        LET sql == _clean_model_sql(Strip(reply.text))
        IN  gen' = IF reply.kind = "ok" /\ _validate_sql(sql, gen.table_name)
                   THEN [gen EXCEPT !.pc = "returned", !.replies = Append(@, reply),
                                    !.calls = @ + 1, !.sql = sql]
                   ELSE [gen EXCEPT !.attempt = @ + 1, !.replies = Append(@, reply), !.calls = @ + 1]
    /\ UNCHANGED <<upload, tables, agentVars, serverVars>>

\* line 113: the loop is exhausted and RuntimeError is raised
GiveUp ==
    /\ gen.pc = "loop"
    /\ gen.attempt >= max_retries + 1
    /\ gen' = [gen EXCEPT !.pc = "raised"]
    /\ UNCHANGED <<upload, tables, agentVars, serverVars>>

SynthNext == Attempt \/ GiveUp


(***************************************************************************)
(* backend/main.py: the /ask_graph_agent endpoint.  The handler is a       *)
(* coroutine on one event loop: what it does up to the await (lines        *)
(* 110-129) and after it (lines 132-136) runs without interruption, and    *)
(* graph_agent.invoke runs on a worker thread in between.  A Python list   *)
(* is an object: conversation_history holds references into `lists`, and   *)
(* two requests that got the same reference append to the same list.       *)
(***************************************************************************)
\* requests the model lets arrive
MaxRequests == 3

NoResponseGenerated == <<"N","o"," ","r","e","s","p","o","n","s","e"," ","g","e","n","e","r","a","t","e","d",".">>

\* a turn is a dict {user, bot}; `by` names the request that made it (two turns of equal
\* text are still two dicts)
\* "\n".join([f"User: {turn['user']}\nAI: {turn['bot']}" for turn in previous_conversation])
memory_text_of(previous_conversation) ==
    Join(<<"\n">>, [i \in 1..Len(previous_conversation) |->
                        <<"U","s","e","r",":"," ">> \o previous_conversation[i].user \o <<"\n","A","I",":"," ">> \o previous_conversation[i].bot])

\* request.session_id or "default"
session_id_of(sent) == IF sent = <<>> THEN <<"d","e","f","a","u","l","t">> ELSE sent

\* the bodies the model lets clients send
HttpQueries == {<<>>, <<" "," ">>, Q_male_break_down}

SessionIds == {<<>>, <<"d","e","f","a","u","l","t">>}

\* a faulty variant of history_get: the new list is stored at once (setdefault), so that
\* concurrent requests of a new session share one list
history_setdefault(history, objects, session_id) ==
    IF session_id \in DOMAIN history
    THEN [ref |-> history[session_id], known |-> TRUE, lists |-> objects, history |-> history]
    ELSE [ref |-> Len(objects) + 1, known |-> FALSE, lists |-> Append(objects, <<>>),
          history |-> [s \in DOMAIN history \cup {session_id} |->
                          IF s = session_id THEN Len(objects) + 1 ELSE history[s]]]

\* a faulty variant of history_get: the request works on a copy of the session's list
history_get_copy(history, objects, session_id) ==
    IF session_id \in DOMAIN history
    THEN [ref |-> Len(objects) + 1, known |-> TRUE, lists |-> Append(objects, objects[history[session_id]]),
          history |-> history]
    ELSE [ref |-> Len(objects) + 1, known |-> FALSE, lists |-> Append(objects, <<>>), history |-> history]

\* conversation_history.get(session_id, []): the session's list, or a new empty list
\* object that the map does not hold
history_get(history, objects, session_id) ==
    IF session_id \in DOMAIN history
    THEN [ref |-> history[session_id], known |-> TRUE, lists |-> objects, history |-> history]
    ELSE [ref |-> Len(objects) + 1, known |-> FALSE, lists |-> Append(objects, <<>>), history |-> history]

\* a faulty variant of initial_state: the state is seeded with a table
initial_state_with_table(user_query, memory_text) ==
    [EmptyState EXCEPT !.query = Val(user_query), !.memory = Val(memory_text),
                       !.table_name = Val(T_reviews)]

\* lines 121-124: the state handed to graph_agent.invoke
initial_state(user_query, memory_text) ==
    [EmptyState EXCEPT !.query = Val(user_query), !.memory = Val(memory_text)]

\* the successful requests that have stored their turn so far
Stored == {r \in 1..Len(requests) : requests[r].status = 200}

NoRequest == [pc |-> "none", user_query |-> <<>>, session_id |-> <<>>, previous_conversation |-> 0,
              stored_before |-> FALSE, answer |-> Absent, raised |-> FALSE, status |-> 0,
              read_after |-> {}, wrote_after |-> {}]

\* lines 110-129: the request is validated, the session's list is looked up (a new
\* list object when the session has none) and the pipeline run is handed to the executor
Receive ==
    /\ Len(requests) < MaxRequests
    /\ \E q \in HttpQueries, sent \in SessionIds :
        LET session_id == session_id_of(sent)
            got == history_get(conversation_history, lists, session_id)
        IN  IF Strip(q) = <<>>
            THEN /\ requests' = Append(requests, [NoRequest EXCEPT !.pc = "done", !.user_query = q,
                                                                   !.session_id = session_id, !.status = 400])
                 /\ UNCHANGED <<lists, conversation_history>>
            ELSE /\ requests' = Append(requests, [NoRequest EXCEPT !.pc = "awaiting", !.user_query = q,
                                                                   !.session_id = session_id,
                                                                   !.previous_conversation = got.ref,
                                                                   !.stored_before = got.known,
                                                                   !.read_after = Stored])
                 /\ lists' = got.lists
                 /\ conversation_history' = got.history
    /\ UNCHANGED <<running, agentVars, otherVars>>

\* a worker thread starts graph_agent.invoke(state) for a waiting request, with the
\* state of lines 121-124: the query and the memory text, nothing else
Dispatch ==
    /\ running = 0
    /\ \E r \in 1..Len(requests) :
        /\ requests[r].pc = "awaiting"
        /\ requests' = [requests EXCEPT ![r].pc = "invoking"]
        /\ running' = r
        /\ state' = initial_state(requests[r].user_query,
                                  memory_text_of(lists[requests[r].previous_conversation]))
    /\ pc' = "START"
    /\ UNCHANGED <<trace, pre, calls, io, branch, turn, conversation_history, lists, otherVars>>

\* graph_agent.invoke returns (or raises): the future the coroutine awaits is resolved
Return ==
    /\ running # 0
    /\ pc \in {"END", "RAISED"}
    /\ requests' = [requests EXCEPT ![running].pc = "resumable",
                                    ![running].answer = state.answer,
                                    ![running].raised = (pc = "RAISED")]
    /\ running' = 0
    /\ pc' = "IDLE"
    /\ state' = EmptyState
    /\ trace' = <<>>
    /\ pre' = EmptyState
    /\ calls' = <<>>
    /\ io' = NoIO
    /\ branch' = "none"
    /\ UNCHANGED <<turn, conversation_history, lists, otherVars>>

\* lines 132-136, or 137-140 when the run raised: the turn is appended to the list the
\* request holds and that list is stored under the session
Respond ==
    /\ \E r \in 1..Len(requests) :
        /\ requests[r].pc = "resumable"
        /\ IF requests[r].raised
           THEN /\ requests' = [requests EXCEPT ![r].pc = "done", ![r].status = 500]
                /\ UNCHANGED <<conversation_history, lists>>
           ELSE LET answer == IF Truthy(requests[r].answer) THEN requests[r].answer[1] ELSE NoResponseGenerated
                    ref == requests[r].previous_conversation
                    session_id == requests[r].session_id
                IN  /\ lists' = [lists EXCEPT ![ref] = Append(@, [user |-> requests[r].user_query, bot |-> answer, by |-> r])]
                    /\ conversation_history' =
                          [s \in DOMAIN conversation_history \cup {session_id} |->
                              IF s = session_id THEN ref ELSE conversation_history[s]]
                    /\ requests' = [requests EXCEPT ![r].pc = "done", ![r].status = 200,
                                                    ![r].answer = Val(answer),
                                                    ![r].wrote_after = Stored]
    /\ UNCHANGED <<running, agentVars, otherVars>>


(***************************************************************************)
(* One pipeline run, graph_agent.invoke(state): one action per node.       *)
(***************************************************************************)
Start ==
    /\ pc = "START"
    /\ pc' \in Successors("START")
    /\ UNCHANGED <<state, trace, pre, calls, io, branch, turn>>
    /\ UNCHANGED <<otherVars, serverVars>>

IdentifyTable ==
    /\ pc = "identify_table"
    /\ \E listing \in Listings, reply \in IdentReplies :
        LET r == identify_table_step(state, listing, reply)
        IN  /\ state' = r.st
            /\ pc' \in After("identify_table", r.raised)
            /\ calls' = r.calls
            /\ io' = [NoIO EXCEPT !.listing = IF InList("get_all_table_names", r.calls) THEN listing ELSE NoListing,
                                  !.reply = IF InList("llm", r.calls) THEN reply ELSE NoReply]
    /\ trace' = Append(trace, "identify_table")
    /\ pre' = state
    /\ UNCHANGED <<branch, turn>>
    /\ UNCHANGED <<otherVars, serverVars>>

GenerateSQL ==
    /\ pc = "generate_sql"
    /\ \E schema_ok \in BOOLEAN, g \in SynthOutcomes(state.table_name) :
        LET r == generate_sql_step(state, schema_ok, g)
        IN  /\ state' = r.st
            /\ pc' \in After("generate_sql", r.raised)
            /\ calls' = r.calls
            /\ branch' = r.branch
            /\ io' = [NoIO EXCEPT !.schema_ok = InList("get_table_schema", r.calls) /\ schema_ok,
                                  !.synth = r.synth]
    /\ trace' = Append(trace, "generate_sql")
    /\ pre' = state
    /\ UNCHANGED turn
    /\ UNCHANGED <<otherVars, serverVars>>

ExecuteSQL ==
    /\ pc = "execute_sql"
    /\ \E out \in ExecOutcomes :
        LET r == execute_sql_step(state, out)
        IN  /\ state' = r.st
            /\ pc' \in After("execute_sql", r.raised)
            /\ calls' = r.calls
            /\ io' = [NoIO EXCEPT !.exec = IF InList("run_query", r.calls) THEN out ELSE NoExec]
    /\ trace' = Append(trace, "execute_sql")
    /\ pre' = state
    /\ UNCHANGED <<branch, turn>>
    /\ UNCHANGED <<otherVars, serverVars>>

Summarize ==
    /\ pc = "summarize"
    /\ \E reply \in SummaryReplies :
        LET r == summarize_step(state, reply)
        IN  /\ state' = r.st
            /\ pc' \in After("summarize", r.raised)
            /\ calls' = r.calls
            /\ io' = [NoIO EXCEPT !.reply = reply]
    /\ trace' = Append(trace, "summarize")
    /\ pre' = state
    /\ UNCHANGED <<branch, turn>>
    /\ UNCHANGED <<otherVars, serverVars>>

\* the next turn of a conversation: a fresh state seeded with the new query, the memory
\* and the fields carried from the previous turn
NextTurn ==
    /\ pc = "END"
    /\ turn < MaxTurns
    /\ \E q \in SessionQueries :
        state' = [EmptyState EXCEPT !.query = Val(q), !.memory = state.memory,
                                    !.table_name = state.table_name, !.filters = state.filters,
                                    !.last_action = state.last_action, !.last_group = state.last_group]
    /\ pc' = "START"
    /\ turn' = turn + 1
    /\ trace' = <<>>
    /\ pre' = EmptyState
    /\ calls' = <<>>
    /\ io' = NoIO
    /\ branch' = "none"
    /\ UNCHANGED <<otherVars, serverVars>>

Run == Start \/ IdentifyTable \/ GenerateSQL \/ ExecuteSQL \/ Summarize

\* nothing but the pipeline is in use
OthersIdle == /\ gen = NoGen /\ upload = NoUpload /\ tables = NoTables
              /\ conversation_history = <<>> /\ lists = <<>> /\ requests = <<>> /\ running = 0

\* no pipeline run is in progress
AgentIdle == /\ pc = "IDLE" /\ state = EmptyState /\ trace = <<>> /\ pre = EmptyState /\ calls = <<>>
             /\ io = NoIO /\ branch = "none" /\ turn = 1

Fresh == /\ pc = "START" /\ trace = <<>> /\ pre = EmptyState /\ calls = <<>>
         /\ io = NoIO /\ branch = "none" /\ turn = 1
         /\ OthersIdle

\* one call of graph_agent.invoke on any state a caller may hand it
Init == Fresh /\ state \in InvokeStates

Next == Run

Spec == Init /\ [][Next]_vars

\* a conversation of up to MaxTurns turns that starts from a new state
SessionInit == Fresh /\ \E q \in SessionQueries : state = [EmptyState EXCEPT !.query = Val(q), !.memory = Val(<<>>)]

SessionNext == Run \/ NextTurn

SessionSpec == SessionInit /\ [][SessionNext]_vars

\* one call of upload_new_table, on any arguments, with the table reviews present or not
UploadInit ==
    /\ AgentIdle
    /\ gen = NoGen /\ conversation_history = <<>> /\ lists = <<>> /\ requests = <<>> /\ running = 0
    /\ tables \in {NoTables, With(NoTables, T_reviews, PriorRows)}
    /\ \E e \in BOOLEAN, f \in FileNames, t \in UploadTableNames :
        upload = [NoUpload EXCEPT !.pc = "called", !.file_exists = e, !.filename = f,
                                  !.table_name = t, !.before = tables]

UploadSpec == UploadInit /\ [][UploadNext]_vars

\* one call of generate_sql_gemini for either table
SynthInit ==
    /\ AgentIdle
    /\ upload = NoUpload /\ tables = NoTables
    /\ conversation_history = <<>> /\ lists = <<>> /\ requests = <<>> /\ running = 0
    /\ \E t \in TableNames : gen = [NoGen EXCEPT !.pc = "loop", !.table_name = t]

SynthSpec == SynthInit /\ [][SynthNext]_vars

\* the server from its start: requests arrive, run the pipeline and respond, concurrently
HttpInit ==
    /\ AgentIdle
    /\ gen = NoGen /\ upload = NoUpload /\ tables = NoTables
    /\ conversation_history = <<>> /\ lists = <<>> /\ requests = <<>> /\ running = 0

HttpNext == Receive \/ Dispatch \/ Run \/ Return \/ Respond

HttpSpec == HttpInit /\ [][HttpNext]_vars

(***************************************************************************)
(* Properties.                                                             *)
(***************************************************************************)
\* the stage that ran last in this run
last == IF trace = <<>> THEN "none" ELSE trace[Len(trace)]

StageOrder == <<"identify_table", "generate_sql", "execute_sql", "summarize">>

SummarizationErrorPrefix == <<"S","u","m","m","a","r","i","z","a","t","i","o","n"," ","e","r","r","o","r",":">>

\* C1: every run executes identify_table, generate_sql, execute_sql, summarize in
\* that order, each exactly once, and then is at END, whatever the collaborators do:
\* the stages run so far are always a prefix of that order, pc is the node that
\* follows them, no exception has aborted the run, and every node before END has a
\* node to go to next.
C1_FixedStageOrder ==
    /\ pc \in {"START", "END"} \cup {StageOrder[k] : k \in 1..4}
    /\ Len(trace) <= 4
    /\ trace = SubSeq(StageOrder, 1, Len(trace))
    /\ pc = "START" => trace = <<>>
    /\ \A k \in 1..4 : pc = StageOrder[k] => Len(trace) = k - 1
    /\ pc = "END" => trace = StageOrder
    /\ pc # "END" => Successors(pc) # {}

\* a run that reached END although query execution and summarization both failed
C1_Witness ==
    /\ pc = "END"
    /\ trace = StageOrder
    /\ state.result # Absent /\ StartsWith(state.result[1], <<"D","a","t","a","b","a","s","e"," ","e","r","r","o","r",":"," ">>)
    /\ state.answer # Absent /\ StartsWith(state.answer[1], SummarizationErrorPrefix)

\* C2: summarize_step always assigns answer and never raises: the (trimmed) LLM reply
\* when the call returns text, otherwise a text that starts with "Summarization error:";
\* so at END answer is set, also when table_name, sql and result are unset.
C2_AnswerAlwaysSet ==
    /\ last = "summarize" =>
        /\ pc = "END"
        /\ state.answer # Absent
        /\ io.reply.kind = "ok" => state.answer = Val(Strip(io.reply.text))
        /\ io.reply.kind # "ok" => StartsWith(state.answer[1], SummarizationErrorPrefix)
    /\ pc = "END" => state.answer # Absent

\* a run at END with table_name, sql and result unset and the LLM failing in summarize
C2_Witness ==
    /\ pc = "END"
    /\ state.table_name = Absent /\ state.sql = Absent /\ state.result = Absent
    /\ io.reply.kind = "error"
    /\ state.answer = Val(SummarizationErrorPrefix \o <<" ","t","i","m","e","o","u","t">>)

IdentAnswer == Strip(io.reply.text)

\* C4: with table_name unset on entry, identify_table_step leaves it unset when the
\* listing fails, the LLM call fails, the answer is "none" in any letter case or the
\* answer is not exactly a member of the listing; it sets table_name only to the
\* answer, and only when that is an exact member of the listing; no other field changes.
C4_TableOnlyFromListing ==
    (last = "identify_table" /\ ~Truthy(pre.table_name)) =>
        /\ state = [pre EXCEPT !.table_name = state.table_name]
        /\ (\/ ~io.listing.ok
            \/ io.reply.kind # "ok"
            \/ Lower(IdentAnswer) = <<"n","o","n","e">>
            \/ ~InList(IdentAnswer, io.listing.tables)) => state.table_name = pre.table_name
        /\ state.table_name # pre.table_name =>
            /\ io.listing.ok /\ io.reply.kind = "ok"
            /\ state.table_name = Val(IdentAnswer)
            /\ InList(IdentAnswer, io.listing.tables)

\* the model answered with a name that differs from a listed table in letter case only
C4_Witness ==
    /\ last = "identify_table"
    /\ pre.table_name = Absent
    /\ io.listing.tables = <<T_reviews, T_t>>
    /\ io.reply = LlmOk(<<"R","e","v","i","e","w","s">>)
    /\ state.table_name = Absent

\* generate_sql_step ran with a table and a schema
Generated == last = "generate_sql" /\ Truthy(pre.table_name) /\ io.schema_ok

\* what the gender swap is to make of each filter body of the model
SwapExpected(filters) ==
    IF filters = F_Female THEN <<"u","s","e","r","g","e","n","d","e","r"," ","="," ","'","M","a","l","e","'">>
    ELSE IF filters = F_female THEN <<"u","s","e","r","g","e","n","d","e","r"," ","="," ","'","m","a","l","e","'">>
    ELSE filters

\* C5: with a table, a schema, filters set and a query containing "male",
\* generate_sql_step stores SELECT * FROM <table> WHERE <swapped filters>; as sql,
\* the swapped text as filters and select_records as last_action, and changes no
\* other field; filters usergender = 'Female' become usergender = 'Male', and only
\* Female -> Male and 'female' -> 'male' are substituted.
C5_GenderSwap ==
    (Generated /\ Truthy(pre.filters) /\ Contains(<<"m","a","l","e">>, pre.query[1])) =>
        LET swapped == SwapExpected(pre.filters[1])
        IN  /\ state.sql = Val(<<"S","E","L","E","C","T"," ","*"," ","F","R","O","M"," ">> \o pre.table_name[1] \o <<" ","W","H","E","R","E"," ">> \o swapped \o <<";">>)
            /\ state.filters = Val(swapped)
            /\ state.last_action = Val(<<"s","e","l","e","c","t","_","r","e","c","o","r","d","s">>)
            /\ state = [pre EXCEPT !.sql = state.sql, !.filters = state.filters,
                                   !.last_action = state.last_action]
            /\ ~InList("llm", calls)

\* the claim's example: filters usergender = 'Female', a query containing "male"
C5_Witness ==
    /\ Generated
    /\ pre.filters = Val(F_Female)
    /\ pre.query = Val(Q_male)
    /\ pre.table_name = Val(T_reviews)
    /\ state.sql = Val(<<"S","E","L","E","C","T"," ","*"," ","F","R","O","M"," ","r","e","v","i","e","w","s"," ","W","H","E","R","E"," ","u","s","e","r","g","e","n","d","e","r"," ","="," ","'","M","a","l","e","'",";">>)
    /\ state.filters = Val(<<"u","s","e","r","g","e","n","d","e","r"," ","="," ","'","M","a","l","e","'">>)

\* the breakdown SQL on one line, for group column userage
BreakdownByUserage(table, filters) ==
    <<"S","E","L","E","C","T"," ","u","s","e","r","a","g","e",","," ","C","O","U","N","T","(","*",")"," ","A","S"," ","r","e","v","i","e","w","_","c","o","u","n","t",","," ","A","V","G","(","r","e","v","i","e","w","r","a","t","i","n","g",")"," ","A","S"," ","a","v","g","_","r","a","t","i","n","g",","," ","M","I","N","(","r","e","v","i","e","w","r","a","t","i","n","g",")"," ","A","S"," ","m","i","n","_","r","a","t","i","n","g",","," ","M","A","X","(","r","e","v","i","e","w","r","a","t","i","n","g",")"," ","A","S"," ","m","a","x","_","r","a","t","i","n","g"," ","F","R","O","M"," ">>
    \o table \o <<" ","W","H","E","R","E"," ">> \o filters \o <<" ","G","R","O","U","P"," ","B","Y"," ","u","s","e","r","a","g","e"," ","O","R","D","E","R"," ","B","Y"," ","r","e","v","i","e","w","_","c","o","u","n","t"," ","D","E","S","C",";">>

\* the state generate_sql_step leaves when it breaks the filtered rows down by userage
IsBreakdownByUserage ==
    /\ state.sql # Absent
    /\ JoinSplit(state.sql[1]) = BreakdownByUserage(pre.table_name[1], JoinSplit(pre.filters[1]))
    /\ state.last_action = Val(<<"b","r","e","a","k","d","o","w","n">>)
    /\ state.last_group = Val(<<"u","s","e","r","a","g","e">>)
    /\ state.filters = pre.filters

\* C6 as stated: with a table, a schema, filters set and the query "break it down by
\* userage", generate_sql_step produces the breakdown by userage.
C6_BreakItDown ==
    (Generated /\ Truthy(pre.filters) /\ pre.query = Val(Q_break_it_down)) => IsBreakdownByUserage

\* C6 amended: the same for the query "break down by userage", which contains the
\* text "break down" the branch looks for.
C6_BreakDown ==
    (Generated /\ Truthy(pre.filters) /\ pre.query = Val(Q_break_down)) =>
        /\ IsBreakdownByUserage
        /\ branch = "breakdown"
        /\ ~InList("llm", calls)

\* the breakdown branch ran for "break down by userage" on filters usergender = 'Female'
C6_Witness ==
    /\ Generated
    /\ pre.filters = Val(F_Female)
    /\ pre.query = Val(Q_break_down)
    /\ branch = "breakdown"
    /\ state.last_group = Val(<<"u","s","e","r","a","g","e">>)

\* run_query returned rows for the state's SQL
Executed == last = "execute_sql" /\ io.exec.kind = "rows"

\* SQL texts of the shape SELECT ... FROM t WHERE <body> [GROUP BY ...] [ORDER BY ...]
\* with upper-case keywords, each with its body
WhereShapes ==
    {[sql |-> <<"S","E","L","E","C","T"," ","*"," ","F","R","O","M"," ">> \o t \o <<" ","W","H","E","R","E"," ">> \o b \o g \o o, body |-> b] :
        t \in TableNames,
        b \in {F_Female, F_female, F_a, <<"a"," ","I","N"," ","(","S","E","L","E","C","T"," ","a"," ","F","R","O","M"," ","t"," ","W","H","E","R","E"," ","b"," ","="," ","1",")">>},
        g \in {<<>>, <<" ","G","R","O","U","P"," ","B","Y"," ","b">>},
        o \in {<<>>, <<" ","O","R","D","E","R"," ","B","Y"," ","b">>, <<" ","O","R","D","E","R"," ","B","Y"," ","c">>}}

\* C7: after a successful execution of an SQL of the shape
\* SELECT ... FROM t WHERE <body> [GROUP BY ...] [ORDER BY ...], filters is exactly
\* <body>, whatever filters held before, and result is the stringified rows.
C7_FilterCapture ==
    Executed =>
        \A x \in WhereShapes :
            pre.sql = Val(x.sql) =>
                /\ state.filters = Val(x.body)
                /\ state.result = Val(PyStrList(io.exec.rows))
                /\ state = [pre EXCEPT !.filters = state.filters, !.result = state.result]

\* the claim's example, executed while other filters were held
C7_Witness ==
    /\ Executed
    /\ pre.sql = Val(<<"S","E","L","E","C","T"," ","*"," ","F","R","O","M"," ","t"," ","W","H","E","R","E"," ","a"," ","="," ","1"," ","G","R","O","U","P"," ","B","Y"," ","b"," ","O","R","D","E","R"," ","B","Y"," ","c">>)
    /\ pre.filters = Val(F_Female)
    /\ state.filters = Val(<<"a"," ","="," ","1">>)

\* the text after the first occurrence of WHERE in any letter case, cut at the first
\* GROUP BY or ORDER BY and trimmed
AfterWhereAnyCase(sql) ==
    LET i == Find(<<"W","H","E","R","E">>, Upper(sql))
        rest == SubSeq(sql, i + 5, Len(sql))
    IN  Strip(SplitHead(SplitHead(rest, <<"G","R","O","U","P"," ","B","Y">>), <<"O","R","D","E","R"," ","B","Y">>))

\* C8: after a successful execution of an SQL that contains WHERE in any letter
\* case, result is the stringified rows and filters is the text after the first
\* occurrence of the keyword, cut at the first GROUP BY or ORDER BY and trimmed.
C8_WhereAnyCase ==
    (Executed /\ Contains(<<"W","H","E","R","E">>, Upper(pre.sql[1]))) =>
        /\ state.result = Val(PyStrList(io.exec.rows))
        /\ state.filters = Val(AfterWhereAnyCase(pre.sql[1]))

\* C9: whenever filters is set it holds a WHERE-clause body only: it contains
\* neither the WHERE keyword nor a GROUP BY or ORDER BY suffix.
C9_FiltersBodyOnly ==
    state.filters # Absent =>
        /\ ~Contains(<<"W","H","E","R","E">>, Upper(state.filters[1]))
        /\ ~Contains(<<"G","R","O","U","P"," ","B","Y">>, Upper(state.filters[1]))
        /\ ~Contains(<<"O","R","D","E","R"," ","B","Y">>, Upper(state.filters[1]))

UploadChecks == <<"exists", "filename", "table_name", "file_type", "row_cap", "non_empty">>

IsWrite(event) == event \in {"drop", "chunk"}

NoWriteYet == \A i \in 1..Len(upload.log) : ~IsWrite(upload.log[i])

\* C11: an upload whose file has more rows than MAX_ROWS ends with a ValueError of the
\* row-cap check, the database as it was at the call (the prior table neither
\* dropped nor replaced) and no statement issued; every failing check leaves the
\* database untouched; and any drop or chunk write is preceded by all six checks.
C11_ValidationBeforeWrite ==
    /\ (upload.pc = "done" /\ upload.rows_read > MAX_ROWS) =>
          /\ upload.outcome = Raised("ValueError", "row_cap")
          /\ tables = upload.before
          /\ NoWriteYet
    /\ (upload.outcome.kind = "raised" /\ InList(upload.outcome.check, UploadChecks)) =>
          /\ upload.outcome.type \in {"ValueError", "FileNotFoundError"}
          /\ tables = upload.before
          /\ NoWriteYet
    /\ \A i \in 1..Len(upload.log) :
          IsWrite(upload.log[i]) =>
              /\ i > Len(UploadChecks)
              /\ SubSeq(upload.log, 1, Len(UploadChecks)) = UploadChecks

\* an upload of more than MAX_ROWS rows into the existing table reviews has been refused
C11_Witness ==
    /\ upload.pc = "done"
    /\ upload.rows_read = MAX_ROWS + 1
    /\ upload.before = With(NoTables, T_reviews, PriorRows)
    /\ table_name_safe_of(upload.table_name) = T_reviews
    /\ upload.outcome = Raised("ValueError", "row_cap")

(***************************************************************************)
(* Failures of query execution.                                            *)
(***************************************************************************)
\* C12: when run_query fails, execute_sql_step returns normally (the run goes on to
\* summarize): a database-layer error leaves result = "Database error: " + message,
\* any other error result = "Execution error: " + message, and no field but result
\* changes; in particular filters is what it was on entry.
C12_ExecutionErrorsCaught ==
    (last = "execute_sql" /\ io.exec.kind \in {"db_error", "error"}) =>
        /\ pc = "summarize"
        /\ io.exec.kind = "db_error" => state.result = Val(<<"D","a","t","a","b","a","s","e"," ","e","r","r","o","r",":"," ">> \o io.exec.msg)
        /\ io.exec.kind = "error" => state.result = Val(<<"E","x","e","c","u","t","i","o","n"," ","e","r","r","o","r",":"," ">> \o io.exec.msg)
        /\ state.filters = pre.filters
        /\ state = [pre EXCEPT !.result = state.result]

\* the database refused a query while filters were held
C12_Witness ==
    /\ last = "execute_sql"
    /\ io.exec.kind = "db_error"
    /\ pre.filters = Val(F_Female)
    /\ state.filters = Val(F_Female)
    /\ state.result = Val(<<"D","a","t","a","b","a","s","e"," ","e","r","r","o","r",":"," ","s","y","n","t","a","x"," ","e","r","r","o","r">>)

(***************************************************************************)
(* Session history under concurrent requests.                              *)
(***************************************************************************)
\* the requests (by number) that stored a turn for the session
Writers(session_id) == {r \in Stored : requests[r].session_id = session_id}

\* the turn a successful request appended
TurnOf(r) == [user |-> requests[r].user_query, bot |-> requests[r].answer[1], by |-> r]

\* the list stored for the session
StoredList(session_id) == lists[conversation_history[session_id]]

\* r and s both read the history before either wrote it back
Concurrent(r, s) == r # s /\ r \notin requests[s].read_after /\ s \notin requests[r].read_after

\* when r read the history no request had stored a turn for its session
FirstOfSession(r) == \A w \in requests[r].read_after : requests[w].session_id # requests[r].session_id

\* s wrote after every other writer of its session
IsLastWriter(s) == Writers(requests[s].session_id) \ {s} \subseteq requests[s].wrote_after

\* C13: the stored list of a session is always the list object of the request that
\* wrote last; and when two successful requests of one session both read the history
\* before either wrote it back, and before any turn was stored for the session, the stored
\* list lacks the turn of at least one of them: if one of the two wrote last, the
\* stored list has its turn and lacks the other's.
C13_LastWriteWins ==
    /\ \A s \in Stored :
          IsLastWriter(s) => conversation_history[requests[s].session_id] = requests[s].previous_conversation
    /\ \A r \in Stored, s \in Stored :
          (/\ requests[r].session_id = requests[s].session_id
           /\ Concurrent(r, s)
           /\ FirstOfSession(r) /\ FirstOfSession(s)) =>
              LET history == StoredList(requests[s].session_id)
              IN  /\ ~(InList(TurnOf(r), history) /\ InList(TurnOf(s), history))
                  /\ IsLastWriter(s) => (InList(TurnOf(s), history) /\ ~InList(TurnOf(r), history))

\* two requests of one session have both answered 200, and the stored history holds
\* the turn of the second writer only
C13_Witness ==
    /\ Len(requests) = 2
    /\ Stored = {1, 2}
    /\ Concurrent(1, 2)
    /\ 2 \in requests[1].wrote_after
    /\ StoredList(requests[1].session_id) = <<TurnOf(1)>>

(***************************************************************************)
(* SQL generation.                                                         *)
(***************************************************************************)
\* C14: when table_name is absent, when the schema fetch fails or when the synthesizer
\* raises after its retries, generate_sql_step returns normally with the state it
\* received: sql, filters, last_action and last_group (every field) are as on entry;
\* in the first two cases it makes no LLM call.
C14_NoOpWhenCannotGenerate ==
    (last = "generate_sql" /\ (~Truthy(pre.table_name) \/ ~io.schema_ok \/ io.synth.raised)) =>
        /\ pc = "execute_sql"
        /\ state.sql = pre.sql /\ state.filters = pre.filters
        /\ state.last_action = pre.last_action /\ state.last_group = pre.last_group
        /\ state = pre
        /\ (~Truthy(pre.table_name) \/ ~io.schema_ok) => ~InList("llm", calls)

\* the synthesizer gave up while filters were held and sql was still unset
C14_Witness ==
    /\ last = "generate_sql"
    /\ io.synth.raised
    /\ pre.table_name = Val(T_reviews)
    /\ pre.filters = Val(F_a)
    /\ state.sql = Absent
    /\ state.filters = Val(F_a)

\* generate_sql_step took the default branch and the synthesizer returned an SQL
DefaultGenerated == Generated /\ branch = "default" /\ ~io.synth.raised

\* the text without its last character when that is a semicolon
WithoutSemicolon(sql) == IF sql # <<>> /\ sql[Len(sql)] = ";" THEN SubSeq(sql, 1, Len(sql) - 1) ELSE sql

\* C15: on the default branch, when filters are held and the synthesizer's SQL has no
\* WHERE in any letter case, the stored sql is that SQL without its trailing semicolon,
\* then (on a new line) WHERE <filters>; when the SQL has a WHERE or no filters are
\* held, the stored sql is the synthesizer's SQL as returned.  Nothing else changes.
C15_DefaultAppendsFilters ==
    DefaultGenerated =>
        /\ (Truthy(pre.filters) /\ ~Contains(<<"W","H","E","R","E">>, Upper(io.synth.sql))) =>
              state.sql = Val(WithoutSemicolon(io.synth.sql) \o <<"\n","W","H","E","R","E"," ">> \o pre.filters[1] \o <<";">>)
        /\ (~Truthy(pre.filters) \/ Contains(<<"W","H","E","R","E">>, Upper(io.synth.sql))) =>
              state.sql = Val(io.synth.sql)
        /\ state = [pre EXCEPT !.sql = state.sql]

\* the held filters were appended to a synthesized SQL that ended in a semicolon
C15_Witness ==
    /\ DefaultGenerated
    /\ pre.filters = Val(F_Female)
    /\ io.synth.sql = Sql_no_where
    /\ state.sql = Val(<<"S","E","L","E","C","T"," ","C","O","U","N","T","(","*",")"," ","F","R","O","M"," ","r","e","v","i","e","w","s","\n","W","H","E","R","E"," ","u","s","e","r","g","e","n","d","e","r"," ","="," ","'","F","e","m","a","l","e","'",";">>)

\* generate_sql_step ran with a table, a schema and filters on a query that asks for a
\* break down and does not contain "male"
BreakdownAsked ==
    /\ Generated
    /\ Truthy(pre.filters)
    /\ Contains(<<"b","r","e","a","k"," ","d","o","w","n">>, Lower(pre.query[1]))
    /\ ~Contains(<<"m","a","l","e">>, Lower(pre.query[1]))

\* the group column by the rule: usergender when the query names it, else userage when
\* the query names it, else last_group, else usergender
GroupColumnByRule ==
    IF Contains(<<"u","s","e","r","g","e","n","d","e","r">>, Lower(pre.query[1])) THEN <<"u","s","e","r","g","e","n","d","e","r">>
    ELSE IF Contains(<<"u","s","e","r","a","g","e">>, Lower(pre.query[1])) THEN <<"u","s","e","r","a","g","e">>
    ELSE GetOr(pre.last_group, <<"u","s","e","r","g","e","n","d","e","r">>)

\* C16: the breakdown groups by usergender if the query contains "usergender", by
\* userage if it contains "userage", otherwise by last_group (usergender when that is
\* unset); a query containing both names groups by usergender; the column chosen is
\* stored as last_group and last_action is breakdown.
C16_GroupColumn ==
    BreakdownAsked =>
        /\ state.last_group = Val(GroupColumnByRule)
        /\ state.last_action = Val(<<"b","r","e","a","k","d","o","w","n">>)
        /\ state.sql = Val(breakdown_sql(GroupColumnByRule, pre.table_name[1], pre.filters[1]))

\* what each branch of generate_sql_step leaves behind
SwapDone == state.last_action = Val(<<"s","e","l","e","c","t","_","r","e","c","o","r","d","s">>) /\ ~InList("llm", calls)

BreakdownDone == state.last_action = Val(<<"b","r","e","a","k","d","o","w","n">>) /\ ~InList("llm", calls)

DefaultDone == InList("llm", calls) /\ state.last_action = pre.last_action

\* C17: with a table and a schema, generate_sql_step takes exactly one branch, tested in
\* the order gender-swap, breakdown, default: with filters held, a query containing
\* "male" (also one that contains "break down" as well) takes gender-swap only, a
\* query containing "break down" but not "male" takes breakdown, any other the
\* default; without filters (unset or empty) it is always the default.  last_action
\* is set by gender-swap and breakdown only and last_group by breakdown only.
C17_OneBranchInOrder ==
    Generated =>
        LET q == Lower(pre.query[1])
            held == Truthy(pre.filters)
        IN  /\ (SwapDone /\ ~BreakdownDone /\ ~DefaultDone)
               \/ (~SwapDone /\ BreakdownDone /\ ~DefaultDone)
               \/ (~SwapDone /\ ~BreakdownDone /\ DefaultDone)
            /\ SwapDone <=> (held /\ Contains(<<"m","a","l","e">>, q))
            /\ BreakdownDone <=> (held /\ ~Contains(<<"m","a","l","e">>, q) /\ Contains(<<"b","r","e","a","k"," ","d","o","w","n">>, q))
            /\ ~held => DefaultDone
            /\ SwapDone => state.last_group = pre.last_group
            /\ DefaultDone => (state.last_group = pre.last_group /\ state.filters = pre.filters)
            /\ BreakdownDone => state.filters = pre.filters

\* a query containing both "male" and "break down" took the gender swap, filters held
C17_Witness ==
    /\ Generated
    /\ pre.query = Val(Q_male_break_down)
    /\ pre.filters = Val(F_Female)
    /\ SwapDone
    /\ branch = "gender_swap"
    /\ state.sql = Val(<<"S","E","L","E","C","T"," ","*"," ","F","R","O","M"," ","r","e","v","i","e","w","s"," ","W","H","E","R","E"," ","u","s","e","r","g","e","n","d","e","r"," ","="," ","'","M","a","l","e","'",";">>)

(***************************************************************************)
(* The SQL synthesizer.                                                    *)
(***************************************************************************)
\* the text starts with "select" in some letter case and contains the table name
IsSelectOnTable(sql, table_name) ==
    /\ Len(sql) >= 6
    /\ Lower(SubSeq(sql, 1, 6)) = <<"s","e","l","e","c","t">>
    /\ Contains(Lower(table_name), Lower(sql))

\* the reply gives no SQL the synthesizer may return
ReplyFails(reply, table_name) ==
    reply.kind # "ok" \/ ~IsSelectOnTable(_clean_model_sql(Strip(reply.text)), table_name)

\* C18: generate_sql_gemini makes at most max_retries + 1 LLM calls and its loop
\* variable only grows up to that number, so it ends; what it returns is the cleaned
\* text of the last reply, which starts with "select" (in some letter case) and
\* contains the table name, every earlier reply having failed; it raises only after
\* max_retries + 1 calls that all failed, and when all fail it never returns.  The
\* synthesizer as the pipeline uses it gives the same outcome for the same replies,
\* whatever replies would have followed.
C18_BoundedValidated ==
    /\ gen.calls <= max_retries + 1
    /\ gen.attempt <= max_retries + 1
    /\ gen.calls = Len(gen.replies)
    /\ gen.pc = "loop" => gen.attempt = gen.calls
    /\ \A k \in 1..(Len(gen.replies) - 1) : ReplyFails(gen.replies[k], gen.table_name)
    /\ gen.pc = "returned" =>
          /\ gen.replies[gen.calls].kind = "ok"
          /\ gen.sql = _clean_model_sql(Strip(gen.replies[gen.calls].text))
          /\ IsSelectOnTable(gen.sql, gen.table_name)
    /\ gen.pc = "raised" =>
          /\ gen.calls = max_retries + 1
          /\ \A k \in 1..gen.calls : ReplyFails(gen.replies[k], gen.table_name)
          /\ gen.sql = <<>>
    /\ (gen.calls = max_retries + 1 /\ \A k \in 1..gen.calls : ReplyFails(gen.replies[k], gen.table_name)) =>
          gen.pc # "returned"
    /\ gen.pc \in {"returned", "raised"} =>
          \A rest \in [1..(max_retries + 1) -> {LlmOk(Sql_Female), LlmOk(Sql_delete), LlmNoContent}] :
              LET replies == [k \in 1..(max_retries + 1) |->
                                 IF k <= gen.calls THEN gen.replies[k] ELSE rest[k]]
                  out == generate_sql_gemini(gen.table_name, replies)
              IN  /\ out.raised = (gen.pc = "raised")
                  /\ out.sql = gen.sql
                  /\ out.calls = gen.calls

\* three calls were made for the table reviews: a DELETE, a SELECT on another table
\* and an LLM failure; RuntimeError was raised
C18_Witness ==
    /\ gen.pc = "raised"
    /\ gen.table_name = T_reviews
    /\ gen.replies = <<LlmOk(Sql_delete), LlmOk(Sql_group_order), LlmError(<<"t","i","m","e","o","u","t">>)>>
    /\ gen.calls = 3

(***************************************************************************)
(* Pipeline runs started through /ask_graph_agent.                         *)
(***************************************************************************)
\* the turns stored for the session of the running request when it was received
EarlierTurns == lists[requests[running].previous_conversation]

\* C19: every run the endpoint starts begins with the query and the memory text and
\* nothing else (table_name, filters, last_action, last_group, sql unset), whatever
\* the session and however many turns it has stored; so identify_table_step always
\* lists the tables to select one, and generate_sql_step never takes the gender-swap
\* or the breakdown branch, leaves last_action and last_group unset and stores the
\* synthesizer's SQL without appending filters.
C19_FreshStateEveryRequest ==
    running # 0 =>
        /\ trace = <<>> =>
              /\ state.query = Val(requests[running].user_query)
              /\ state = [EmptyState EXCEPT !.query = state.query, !.memory = state.memory]
        /\ last = "identify_table" =>
              /\ pre.table_name = Absent
              /\ calls # <<>> /\ calls[1] = "get_all_table_names"
        /\ last = "generate_sql" =>
              /\ pre.filters = Absent /\ pre.last_action = Absent /\ pre.last_group = Absent
              /\ branch \notin {"gender_swap", "breakdown"}
              /\ ~SwapDone /\ ~BreakdownDone
              /\ state.last_action = Absent /\ state.last_group = Absent
              /\ state.filters = Absent
              /\ state.sql # pre.sql => state.sql = Val(io.synth.sql)

\* the third request of a session with two stored turns: its query contains "male" and
\* "break down", and the run took the default branch and stored the synthesizer's SQL
C19_Witness ==
    /\ running = 3
    /\ Len(EarlierTurns) = 2
    /\ requests[running].user_query = Q_male_break_down
    /\ last = "generate_sql"
    /\ branch = "default"
    /\ state.sql = Val(Sql_no_where)

(***************************************************************************)
(* What the stored history keeps.                                          *)
(***************************************************************************)
\* how many turns of the list were made by request r
Occurrences(r, history) == Cardinality({k \in 1..Len(history) : history[k].by = r})

\* the requests that were rejected with HTTP 400
Rejected == {r \in 1..Len(requests) : requests[r].status = 400}

\* the requests that read the session's history while the session had no stored list
ReadWithoutEntry(session_id) ==
    {r \in 1..Len(requests) : /\ requests[r].session_id = session_id
                              /\ r \notin Rejected
                              /\ ~requests[r].stored_before}

\* the rejected requests left no turn anywhere
RejectedStoreNothing == \A i \in 1..Len(lists) : \A r \in Rejected : Occurrences(r, lists[i]) = 0

\* the stored list of the session holds the turn of each of its writers once, in the
\* order they wrote, and nothing else
KeepsEveryTurn(session_id) ==
    LET history == StoredList(session_id)
    IN  /\ Len(history) = Cardinality(Writers(session_id))
        /\ \A r \in Writers(session_id) :
              Occurrences(r, history) = 1 /\ InList(TurnOf(r), history)
        /\ \A k \in 1..Len(history) : \A j \in 1..(k - 1) :
              history[j].by \in requests[history[k].by].wrote_after

\* C20 as stated: a successful request that found a stored list for its session has
\* its turn in the stored history of the session exactly once, whatever the
\* interleaving; and rejected requests store nothing.
C20_LostOnlyWithoutEntry ==
    /\ \A r \in Stored :
          requests[r].stored_before =>
              Occurrences(r, StoredList(requests[r].session_id)) = 1
    /\ RejectedStoreNothing

\* C20 amended: when at most one request of a session read its history while the
\* session had no stored list (so in sequential use, and for any concurrent requests
\* on a session whose only list was stored before they arrived), the stored history
\* holds the turn of every successful request of the session exactly once, in the
\* order they were written, and has exactly one {user, bot} pair per successful
\* request; rejected requests store nothing.
C20_SharedListKeepsTurns ==
    /\ \A session_id \in DOMAIN conversation_history :
          Cardinality(ReadWithoutEntry(session_id)) <= 1 => KeepsEveryTurn(session_id)
    /\ RejectedStoreNothing

\* request 1 stored the first list of the session; requests 2 and 3 both read it
\* before either wrote, and all three turns are stored
C20_Witness ==
    /\ Stored = {1, 2, 3}
    /\ requests[2].stored_before /\ requests[3].stored_before
    /\ Concurrent(2, 3)
    /\ Len(StoredList(requests[1].session_id)) = 3

====
